---- MODULE Spec2Model ----
(***************************************************************************)
(* StudyRobo backend: the tool-augmented conversation engine               *)
(* (app/core/enhanced_llm_wrapper_supabase.py), the chat endpoint that     *)
(* drives it (app/api/v1/endpoints/chat_supabase.py) and the attendance    *)
(* provider (app/tools/attendance_tools_supabase.py, app/core/db_client.py)*)
(*                                                                         *)
(* Further specifications follow the store under concurrent appends        *)
(* (StoreSpec), detect_intent (IntentSpec), the creation of a user record  *)
(* (SignupSpec), the OAuth endpoints (OAuthSpec) and the text splitter     *)
(* (SplitSpec).                                                            *)
(*                                                                         *)
(* One behaviour is one request: Init draws the state of the stores the    *)
(* request finds, an entry action draws the request, and the handler runs  *)
(* step by step, one action per stretch of code between two awaits.        *)
(***************************************************************************)
EXTENDS Integers, Sequences, FiniteSets, TLC

VARIABLES
    provider,      \* settings.LLM_PROVIDER
    dbUp,          \* the database accepts statements (an append raises otherwise)
    llmUp,         \* the model provider answers (create_completion raises otherwise)
    users,         \* table users: google_id -> id
    tokenStore,    \* token_store: google_id -> access token
    messages,      \* table messages, the per-user stream: user id -> turns
    convMessages,  \* the conversation stream: conversation id -> turns
    chatMemory,    \* app.core.chat_memory: user_id -> turns
    attendance,    \* table attendance: rows in insertion order
    pc,            \* position of the request's handler
    req,           \* the request and the handler's local variables
    llmLog,        \* the create_completion calls made, in order
    toolLog,       \* the execute_tool calls made, in order, with their envelopes
    providerLog,   \* the provider calls made, in order, with what each returned
    outcome,       \* what the caller of the entry point gets
    conversations, \* table conversations: conversation id -> owning user id
    rows,          \* table messages as the database holds it: committed rows
    clock,         \* the database clock
    appenders,     \* the tasks appending to the store, each with its position
    appended,      \* the appends that returned, with when they were called and returned
    listing,       \* the listing taken by get_messages or get_conversation_messages
    intentRun,     \* a message and what detect_intent returned for it
    signups,       \* the requests of one new google_id, each with its position
    oauth,         \* _oauth_states, token_store and the answers of the OAuth endpoints
    splitter       \* SimpleTextSplitter.split_text: its locals while it runs

vars == <<provider, dbUp, llmUp, users, tokenStore, messages, convMessages, chatMemory,
          attendance, pc, req, llmLog, toolLog, providerLog, outcome,
          conversations, rows, clock, appenders, appended, listing,
          intentRun, signups, oauth, splitter>>

\* The variables of the store's rows and of the tasks working on them.
storeVars == <<rows, clock, appenders, appended, listing>>

\* The variables of the operations checked on their own: intent detection,
\* user creation, the OAuth endpoints, text splitting.
sideVars == <<intentRun, signups, oauth, splitter>>

(***************************************************************************)
(* Bounds of the model.                                                    *)
(***************************************************************************)
MaxToolCalls == 2     \* tool calls in one model response
MaxAppends == 2       \* appends each task makes, one after the other
MaxWords == 2         \* words in a message given to detect_intent
MaxOAuthCalls == 4    \* calls of the two OAuth endpoints in one behaviour
MaxTextLen == 4       \* characters in a text given to split_text
MaxChunkSize == 3     \* chunk_size of a SimpleTextSplitter
MaxChunks == 6        \* entries of the list `chunks` that are kept

(***************************************************************************)
(* Values.                                                                 *)
(***************************************************************************)
None == "<None>"                      \* Python None
Falsy(x) == x \in {None, ""}          \* `not x` for an Optional[str]

GoogleIds == {"g1", "g2"}
DbUserIds == {1}
ConversationIds == {"c1"}
RequestMessages == {"mark me present for CS101", "hello"}
ReplyTexts == {"ok, done", ""}
Courses == {"CS101"}

Turn(role, content) == [role |-> role, content |-> content]
OldTurn == Turn("user", "earlier")
OldStream == <<OldTurn>>              \* what a stream holds before the request

(***************************************************************************)
(* JSON.  An object is a set of <<key, value>> pairs with distinct keys; a  *)
(* JSON text either parses to an object or does not parse.                 *)
(***************************************************************************)
Json(obj) == [parses |-> TRUE, obj |-> obj]
BadJson == [parses |-> FALSE, obj |-> {}]
Has(d, k) == \E p \in d : p[1] = k
DictGet(d, k, default) == IF Has(d, k) THEN (CHOOSE p \in d : p[1] = k)[2] ELSE default

\* json.loads(tool_call['function']['arguments'])
JsonLoads(text) ==
    IF text.parses THEN [raised |-> FALSE, exc |-> "", value |-> text.obj]
    ELSE [raised |-> TRUE, exc |-> "JSONDecodeError", value |-> {}]

(***************************************************************************)
(* The tools.                                                              *)
(***************************************************************************)
get_all_tools ==
    <<"get_study_material", "get_career_insights", "mark_attendance",
      "get_attendance_records", "get_unread_emails", "draft_email">>

Registry == {get_all_tools[i] : i \in DOMAIN get_all_tools}
UnknownTool == "get_weather"
RequestedNames == Registry \cup {UnknownTool}

\* The providers declared `async def`: awaiting their call yields the envelope.
\* mark_attendance and get_attendance_records are plain `def`.
AsyncProviders ==
    {"get_study_material", "get_career_insights", "get_unread_emails", "draft_email"}

\* Arguments a model writes when it follows the tool's schema.
SchemaArgs(name) ==
    CASE name = "get_study_material" -> {<<"query", "quicksort">>}
      [] name = "get_career_insights" -> {<<"field", "ai">>}
      [] name = "mark_attendance" -> {<<"user_id", "u-model">>, <<"course_name", "CS101">>}
      [] name = "get_attendance_records" -> {<<"user_id", "u-model">>}
      [] name = "get_unread_emails" -> {<<"google_access_token", "tok-model">>}
      [] name = "draft_email" ->
            {<<"google_access_token", "tok-model">>, <<"to", "a@b.c">>,
             <<"subject", "s">>, <<"body", "b">>}
      [] OTHER -> {}

\* The "required" list of each tool's schema.
RequiredArgs(name) ==
    CASE name = "get_study_material" -> {"query"}
      [] name = "get_career_insights" -> {"field"}
      [] name = "mark_attendance" -> {"user_id", "course_name"}
      [] name = "get_attendance_records" -> {"user_id"}
      [] name = "get_unread_emails" -> {"google_access_token"}
      [] name = "draft_email" -> {"google_access_token", "to", "subject", "body"}
      [] OTHER -> {}

\* The arguments execute_tool takes from the credential context, not from
\* the model's arguments.
CredentialArgs == {"user_id", "google_access_token"}

\* The arguments texts a model may write for a tool: the schema's arguments,
\* an empty object, or text that is not JSON.  Unparseable text is drawn for
\* two of the names only: json.loads fails before the name is looked at.
UnparseableFor == {"mark_attendance", UnknownTool}

ArgumentTexts(name) ==
    {Json({}), Json(SchemaArgs(name))}
        \cup IF name \in UnparseableFor THEN {BadJson} ELSE {}

ToolCall(id, name, arguments) == [id |-> id, name |-> name, arguments |-> arguments]

ToolCallChoices ==
    UNION {{[name |-> m, arguments |-> a] : a \in ArgumentTexts(m)} : m \in RequestedNames}

\* The calls that may follow the first one in a response: every name, with
\* the arguments of its schema.
LaterToolCallChoices ==
    {[name |-> m, arguments |-> Json(SchemaArgs(m))] : m \in RequestedNames}

\* The tool_calls lists a response may carry: the call at position i has id i.
ToolCallLists ==
    UNION {{[i \in 1..n |-> ToolCall(i, s[i].name, s[i].arguments)] :
                s \in {t \in [1..n -> ToolCallChoices] :
                          \A i \in 2..n : t[i] \in LaterToolCallChoices}} :
           n \in 0..MaxToolCalls}

(***************************************************************************)
(* Capability providers.  A provider call is evaluated in an environment:  *)
(* the attendance table, whether the database is up, and how the external  *)
(* service (Tavily, Gmail) answers.  It yields the value the Python call   *)
(* returns (ret) and the attendance table afterwards.                      *)
(***************************************************************************)
ExternalAnswers == {"ok", "unauthorized", "error"}

\* db_client.mark_attendance(user_id, course_name): one INSERT, committed.
DbMarkAttendance(table, user_id, course_name) ==
    Append(table, [user_id |-> user_id, course_name |-> course_name])

\* attendance_tools_supabase.mark_attendance(course_name, user_id).  The call
\* db_mark_attendance(course_name, user_id) passes its arguments by position.
MarkAttendance(table, up, course_name, user_id) ==
    IF up
    THEN [ret |-> [success |-> TRUE,
                   message |-> "Successfully marked attendance",
                   attendance_data |-> [user_id |-> user_id, course |-> course_name,
                                        status |-> "Present"]],
          attendance |-> DbMarkAttendance(table, course_name, user_id)]
    ELSE [ret |-> [success |-> FALSE, error |-> "Error marking attendance",
                   course |-> course_name, user_id |-> user_id],
          attendance |-> table]

\* attendance_tools_supabase.get_attendance_records: SupabaseQuery has no
\* order(), the AttributeError is caught by the function's own except.
GetAttendanceRecords(user_id, course_name) ==
    [success |-> FALSE, error |-> "Error retrieving attendance records",
     records |-> <<>>, user_id |-> user_id]

\* search_tools.get_study_material: db_search_documents is called with the
\* keyword google_id, which db_client.search_documents does not take; the
\* TypeError is caught by the function's own except.
GetStudyMaterial(query) ==
    [success |-> FALSE, error |-> "TypeError", query |-> query,
     message |-> "Error searching study materials"]

\* career_tools.get_career_insights
GetCareerInsights(field, answer) ==
    IF answer = "ok"
    THEN [success |-> TRUE, query |-> field, field |-> field,
          message |-> "Found career insights", search_performed |-> TRUE]
    ELSE [success |-> FALSE, error |-> answer, query |-> field,
          message |-> "Error searching career insights"]

\* email_tools_supabase.get_unread_emails
GetUnreadEmails(google_access_token, max_results, answer) ==
    CASE answer = "ok" ->
            [success |-> TRUE, emails |-> <<>>, total_count |-> 0,
             message |-> "Found 0 unread emails"]
      [] answer = "unauthorized" ->
            [success |-> FALSE, error |-> "Token expired or invalid", emails |-> <<>>,
             auth_required |-> TRUE, message |-> "Please log in again to access your Gmail"]
      [] OTHER ->
            [success |-> FALSE, error |-> answer, emails |-> <<>>,
             message |-> "Error fetching emails"]

\* email_tools_supabase.draft_email
DraftEmail(google_access_token, to, subject, body, answer) ==
    CASE answer = "ok" ->
            [success |-> TRUE, draft_id |-> "d1", message |-> "Draft created",
             to |-> to, subject |-> subject]
      [] answer = "unauthorized" ->
            [success |-> FALSE, error |-> "Token expired or invalid", draft_id |-> None,
             message |-> "Please log in again to create email drafts"]
      [] OTHER ->
            [success |-> FALSE, error |-> answer, draft_id |-> None,
             message |-> "Error creating draft"]

(***************************************************************************)
(* execute_tool.                                                           *)
(***************************************************************************)
\* `await <call>`: the call is evaluated first; awaiting the dict a plain
\* function returned raises TypeError, caught by execute_tool's except.
Await(tool_name, ret) ==
    IF tool_name \in AsyncProviders THEN ret
    ELSE [success |-> FALSE,
          error |-> "object dict can't be used in 'await' expression",
          message |-> "Error executing tool"]

\* Fault: mark_attendance is dispatched without the `if not user_id` check.
Refusal_NoIdentityCheck(tool_name, google_access_token, user_id) ==
    CASE tool_name = "get_attendance_records" /\ Falsy(user_id) ->
            [success |-> FALSE, error |-> "User ID is required for attendance records",
             message |-> "Please ensure you're logged in to view attendance"]
      [] tool_name = "get_unread_emails" /\ Falsy(google_access_token) ->
            [success |-> FALSE, error |-> "Google access token is required",
             message |-> "Please ensure you're logged in with Google to access emails"]
      [] tool_name = "draft_email" /\ Falsy(google_access_token) ->
            [success |-> FALSE, error |-> "Google access token is required",
             message |-> "Please ensure you're logged in with Google to draft emails"]
      [] OTHER -> [success |-> TRUE]

\* Fault: the e-mail tools are dispatched without the access-token check.
Refusal_NoTokenCheck(tool_name, google_access_token, user_id) ==
    CASE tool_name = "mark_attendance" /\ Falsy(user_id) ->
            [success |-> FALSE, error |-> "User ID is required for attendance marking",
             message |-> "Please ensure you're logged in to mark attendance"]
      [] tool_name = "get_attendance_records" /\ Falsy(user_id) ->
            [success |-> FALSE, error |-> "User ID is required for attendance records",
             message |-> "Please ensure you're logged in to view attendance"]
      [] OTHER -> [success |-> TRUE]

\* The envelope of the credential check that stops a dispatch, if one does
\* (success = TRUE stands for: none does).
Refusal(tool_name, google_access_token, user_id) ==
    CASE tool_name = "mark_attendance" /\ Falsy(user_id) ->
            [success |-> FALSE, error |-> "User ID is required for attendance marking",
             message |-> "Please ensure you're logged in to mark attendance"]
      [] tool_name = "get_attendance_records" /\ Falsy(user_id) ->
            [success |-> FALSE, error |-> "User ID is required for attendance records",
             message |-> "Please ensure you're logged in to view attendance"]
      [] tool_name = "get_unread_emails" /\ Falsy(google_access_token) ->
            [success |-> FALSE, error |-> "Google access token is required",
             message |-> "Please ensure you're logged in with Google to access emails"]
      [] tool_name = "draft_email" /\ Falsy(google_access_token) ->
            [success |-> FALSE, error |-> "Google access token is required",
             message |-> "Please ensure you're logged in with Google to draft emails"]
      [] OTHER -> [success |-> TRUE]

Refuses(tool_name, google_access_token, user_id) ==
    ~Refusal(tool_name, google_access_token, user_id).success

\* Fault: the else branch reports success.
UnknownToolResult_Success(tool_name) ==
    [success |-> TRUE, message |-> "Tool is not available"]

\* The else branch of execute_tool.
UnknownToolResult(tool_name) ==
    [success |-> FALSE, error |-> "Unknown tool", message |-> "Tool is not available"]

\* execute_tool(tool_name, tool_args, google_access_token, user_id) in the
\* environment (table, up, answer): the envelope it returns, the attendance
\* table afterwards and the provider calls it made, each with what the
\* provider returned.
\* Fault: the user id written by the model is passed on when there is one.
ProviderUserId_FromArguments(tool_args, user_id) == DictGet(tool_args, "user_id", user_id)

\* Fault: the token written by the model is passed on when there is one.
ProviderToken_FromArguments(tool_args, google_access_token) ==
    DictGet(tool_args, "google_access_token", google_access_token)

\* Lines 85 and 91: `user_id=user_id`, the parameter of execute_tool.
ProviderUserId(tool_args, user_id) == user_id

\* Lines 98 and 106: `google_access_token=google_access_token`, the parameter.
ProviderToken(tool_args, google_access_token) == google_access_token

\* No identity or token goes to the provider, no external service is asked.
NotPassed == [user_id |-> None, google_access_token |-> None]

execute_tool(tool_name, tool_args, google_access_token, user_id, table, up, answer) ==
    LET provided(call, passed, external) ==
            [envelope |-> Await(tool_name, call.ret),
             attendance |-> call.attendance,
             called |-> <<[name |-> tool_name, ret |-> call.ret, passed |-> passed,
                           external |-> external]>>]
        uid == ProviderUserId(tool_args, user_id)
        token == ProviderToken(tool_args, google_access_token)
    IN  IF Refuses(tool_name, google_access_token, user_id)
        THEN [envelope |-> Refusal(tool_name, google_access_token, user_id),
              attendance |-> table, called |-> <<>>]
        ELSE CASE tool_name = "get_study_material" ->
                    provided([ret |-> GetStudyMaterial(DictGet(tool_args, "query", "")),
                              attendance |-> table], NotPassed, None)
               [] tool_name = "get_career_insights" ->
                    provided([ret |-> GetCareerInsights(DictGet(tool_args, "field", ""),
                                                        answer),
                              attendance |-> table], NotPassed, answer)
               [] tool_name = "mark_attendance" ->
                    provided(MarkAttendance(table, up,
                                            DictGet(tool_args, "course_name", ""), uid),
                             [NotPassed EXCEPT !.user_id = uid], None)
               [] tool_name = "get_attendance_records" ->
                    provided([ret |-> GetAttendanceRecords(
                                          uid, DictGet(tool_args, "course_name", None)),
                              attendance |-> table],
                             [NotPassed EXCEPT !.user_id = uid], None)
               [] tool_name = "get_unread_emails" ->
                    provided([ret |-> GetUnreadEmails(
                                          token,
                                          DictGet(tool_args, "max_results", "10"), answer),
                              attendance |-> table],
                             [NotPassed EXCEPT !.google_access_token = token], answer)
               [] tool_name = "draft_email" ->
                    provided([ret |-> DraftEmail(token,
                                                 DictGet(tool_args, "to", ""),
                                                 DictGet(tool_args, "subject", ""),
                                                 DictGet(tool_args, "body", ""), answer),
                              attendance |-> table],
                             [NotPassed EXCEPT !.google_access_token = token], answer)
               [] OTHER ->
                    [envelope |-> UnknownToolResult(tool_name),
                     attendance |-> table, called |-> <<>>]

(***************************************************************************)
(* Intent and system prompt.                                               *)
(***************************************************************************)
\* str.lower() on one character.
LowerChar(c) ==
    CASE c = "A" -> "a"
      [] c = "B" -> "b"
      [] c = "C" -> "c"
      [] c = "D" -> "d"
      [] c = "E" -> "e"
      [] c = "F" -> "f"
      [] c = "G" -> "g"
      [] c = "H" -> "h"
      [] c = "I" -> "i"
      [] c = "J" -> "j"
      [] c = "K" -> "k"
      [] c = "L" -> "l"
      [] c = "M" -> "m"
      [] c = "N" -> "n"
      [] c = "O" -> "o"
      [] c = "P" -> "p"
      [] c = "Q" -> "q"
      [] c = "R" -> "r"
      [] c = "S" -> "s"
      [] c = "T" -> "t"
      [] c = "U" -> "u"
      [] c = "V" -> "v"
      [] c = "W" -> "w"
      [] c = "X" -> "x"
      [] c = "Y" -> "y"
      [] c = "Z" -> "z"
      [] OTHER -> c

\* message.lower()
RECURSIVE Lower(_)
Lower(text) ==
    IF text = "" THEN ""
    ELSE LowerChar(SubSeq(text, 1, 1)) \o Lower(SubSeq(text, 2, Len(text)))

\* `keyword in text`: keyword is a substring of text.
Contains(text, keyword) ==
    \E i \in 1..(Len(text) - Len(keyword) + 1) :
        SubSeq(text, i, i + Len(keyword) - 1) = keyword


intents ==
    <<[intent |-> "study",
       keywords |-> {"study", "learn", "explain", "what is", "help me understand", "exam",
                     "topic", "concept", "algorithm", "syllabus", "material", "notes",
                     "homework", "assignment"}],
      [intent |-> "career",
       keywords |-> {"career", "job", "salary", "work", "employment", "profession", "field",
                     "market", "opportunity", "growth"}],
      [intent |-> "attendance",
       keywords |-> {"attendance", "present", "absent", "mark", "class", "course"}],
      [intent |-> "email",
       keywords |-> {"email", "gmail", "inbox", "draft", "send", "message", "unread",
                     "check"}]>>

\* The keywords of one category that are substrings of message_lower.
KeywordsIn(message_lower, keywords) ==
    {keyword \in keywords : Contains(message_lower, keyword)}

\* Fault: the keywords are looked up in the message as it was typed.
detect_intent_CaseSensitive(message) ==
    LET hits == {i \in DOMAIN intents : KeywordsIn(message, intents[i].keywords) # {}}
    IN  IF hits = {} THEN "general"
        ELSE intents[CHOOSE i \in hits : \A j \in hits : i <= j].intent

\* Fault: the last category with a keyword in the message wins.
detect_intent_LastCategory(message) ==
    LET message_lower == Lower(message)
        hits == {i \in DOMAIN intents : KeywordsIn(message_lower, intents[i].keywords) # {}}
    IN  IF hits = {} THEN "general"
        ELSE intents[CHOOSE i \in hits : \A j \in hits : i >= j].intent

\* The loop over intents.items() returns at the first category, in the
\* dict's order, one of whose keywords is in message_lower.
detect_intent(message) ==
    LET message_lower == Lower(message)
        hits == {i \in DOMAIN intents : KeywordsIn(message_lower, intents[i].keywords) # {}}
    IN  IF hits = {} THEN "general"
        ELSE intents[CHOOSE i \in hits : \A j \in hits : i <= j].intent

\* detect_intent on the messages a request can carry.
RequestIntent == [message \in RequestMessages |-> detect_intent(message)]

create_system_prompt(intent) ==
    IF intent \in {"study", "career", "attendance", "email", "general"}
    THEN intent ELSE "general"

(***************************************************************************)
(* The conversation stores.                                                *)
(***************************************************************************)
HistoryLimit == 10

\* chat_memory.add_message(user_id, role, content)
MemoryAdd(memory, user_id, role, content) ==
    [memory EXCEPT ![user_id] = Append(@, Turn(role, content))]

\* chat_memory.format_conversation_for_llm(user_id, limit): the last `limit`
\* turns, oldest first.
format_conversation_for_llm(memory, user_id, limit) ==
    LET turns == memory[user_id]
        n == Len(turns)
    IN  SubSeq(turns, IF n > limit THEN n - limit + 1 ELSE 1, n)

\* db_client.add_message(user_id, role, content)
add_message(table, user_id, role, content) ==
    [table EXCEPT ![user_id] = Append(@, Turn(role, content))]

\* db_client.add_message_to_conversation(conversation_id, role, content)
add_message_to_conversation(table, conversation_id, role, content) ==
    [table EXCEPT ![conversation_id] = Append(@, Turn(role, content))]

(***************************************************************************)
(* State.                                                                  *)
(***************************************************************************)
CredentialUserIds == {ToString(u) : u \in DbUserIds}
AccessTokens == {"tok"}

ChatMsg(role, content, tool_calls, tool_call_id, name) ==
    [role |-> role, content |-> content, tool_calls |-> tool_calls,
     tool_call_id |-> tool_call_id, name |-> name]

NoMsg == ChatMsg("", "", <<>>, 0, "")

NoRequest ==
    [entry |-> "", message |-> "", google_access_token |-> None, user_id |-> None,
     conversation_id |-> None, google_id |-> "", db_user_id |-> 0,
     messages |-> <<>>, assistant_message |-> NoMsg, final_messages |-> <<>>,
     assistant_reply |-> "", exc |-> "",
     pre |-> [messages |-> <<>>, convMessages |-> <<>>, chatMemory |-> <<>>,
              attendance |-> <<>>, conversations |-> <<>>]]

NoOutcome == [kind |-> "", status |-> 0, text |-> ""]
Reply(text) == [kind |-> "reply", status |-> 200, text |-> text]
Raised(exc) == [kind |-> "raised", status |-> 0, text |-> exc]
HttpError(status, detail) == [kind |-> "http_error", status |-> status, text |-> detail]

\* Conversations of another user, and an id no conversation has.
OthersConversations == {"c2"}
UnknownConversation == "c9"

\* The two tasks that append to the store at the same time (two requests of
\* one user), the streams they append to, and the content of the k-th turn
\* task p appends.
Tasks == {1, 2}
Streams == {"user:1", "conversation:c1"}
TurnContent(p, k) == [task |-> p, seq |-> k]

NoRow == [stream |-> "", role |-> "", content |-> TurnContent(0, 0), created_at |-> 0]
NoTask == [pc |-> "idle", stream |-> "", done |-> MaxAppends, called_at |-> 0, row |-> NoRow]
NoListing == [taken |-> FALSE, stream |-> "", result |-> <<>>]

\* No request in progress, the tables as the request will find them.
EngineAtRest ==
    /\ dbUp = TRUE
    /\ llmUp = TRUE
    /\ users = [g \in {"g1"} |-> 1]
    /\ tokenStore = [g \in {"g1"} |-> "tok"]
    /\ messages = [u \in DbUserIds |-> OldStream]
    /\ convMessages = [c \in ConversationIds \cup OthersConversations |-> OldStream]
    /\ conversations = [c \in ConversationIds \cup OthersConversations |->
                            IF c \in ConversationIds THEN 1 ELSE 2]
    /\ chatMemory = [u \in CredentialUserIds |-> OldStream]
    /\ attendance = <<>>
    /\ pc = "idle"
    /\ req = NoRequest
    /\ llmLog = <<>>
    /\ toolLog = <<>>
    /\ providerLog = <<>>
    /\ outcome = NoOutcome

\* No task on the store.
StoreAtRest ==
    /\ rows = {}
    /\ clock = 0
    /\ appenders = [p \in Tasks |-> NoTask]
    /\ appended = {}
    /\ listing = NoListing

\* Nothing running in the operations checked on their own.
Idle == [pc |-> "idle"]
IntentAtRest == intentRun = Idle
SignupsAtRest == signups = Idle
OAuthAtRest == oauth = Idle
SplitterAtRest == splitter = Idle
SideAtRest ==
    IntentAtRest /\ SignupsAtRest /\ OAuthAtRest /\ SplitterAtRest

Init ==
    /\ provider \in {"openai", "mistral"}
    /\ EngineAtRest
    /\ SideAtRest
    /\ rows = {}
    /\ clock = 0
    /\ appenders = [p \in Tasks |-> NoTask]
    /\ appended = {}
    /\ listing = NoListing

Snapshot ==
    [messages |-> messages, convMessages |-> convMessages, chatMemory |-> chatMemory,
     attendance |-> attendance, conversations |-> conversations]

(***************************************************************************)
(* get_llm_response_with_supabase(message, google_access_token, user_id).  *)
(***************************************************************************)
WrapperParams == {"message", "google_access_token", "user_id"}

ErrorMessage(exc) ==
    CASE exc = "UpstreamModelError" -> "Error: model call failed"
      [] exc = "JSONDecodeError" -> "Error: invalid tool arguments"
      [] OTHER -> "Error: store failed"

\* The detail of the HTTPException chat_endpoint's except clause raises.
ChatEndpointExcept == "An error occurred while processing your request"

\* chat_endpoint after `reply = await get_llm_response_with_supabase(...)`:
\* the assistant turn is appended and the reply returned; any exception
\* becomes HTTP 500.
ChatEndpointAfter(result) ==
    CASE result.kind = "raised" \/ ~dbUp ->
            [outcome |-> HttpError(500, ChatEndpointExcept),
             messages |-> messages, convMessages |-> convMessages]
      [] ~Falsy(req.conversation_id) ->
            [outcome |-> result, messages |-> messages,
             convMessages |-> add_message_to_conversation(convMessages, req.conversation_id,
                                                          "ai", result.text)]
      [] OTHER ->
            [outcome |-> result, convMessages |-> convMessages,
             messages |-> add_message(messages, req.db_user_id, "ai", result.text)]

\* What the caller of the wrapper does with its result.
Deliver(result) ==
    IF req.entry = "chat_endpoint" THEN ChatEndpointAfter(result)
    ELSE [outcome |-> result, messages |-> messages, convMessages |-> convMessages]

\* The engine called on its own (test_chat_endpoint, get_llm_response_with_all_tools,
\* or any caller of the function) with a credential context.
Respond ==
    /\ pc = "idle"
    /\ \E message \in RequestMessages,
          google_access_token \in AccessTokens \cup {None},
          user_id \in CredentialUserIds \cup {None, ""} :
            req' = [NoRequest EXCEPT !.entry = "respond", !.message = message,
                                     !.google_access_token = google_access_token,
                                     !.user_id = user_id,
                                     !.pre = Snapshot]
    /\ pc' = "w_start"
    /\ UNCHANGED <<sideVars, storeVars, conversations, provider, dbUp, llmUp, users, tokenStore, messages, convMessages, chatMemory,
                   attendance, llmLog, toolLog, providerLog, outcome>>

\* Lines 158-188: store the user message, build the prompt.
W_Start ==
    /\ pc = "w_start"
    /\ IF ~Falsy(req.user_id) /\ ~dbUp
       THEN /\ pc' = "w_except"
            /\ req' = [req EXCEPT !.exc = "PersistenceError"]
            /\ UNCHANGED chatMemory
       ELSE LET memory == IF Falsy(req.user_id) THEN chatMemory
                          ELSE MemoryAdd(chatMemory, req.user_id, "user", req.message)
                context == IF Falsy(req.user_id) THEN <<>>
                           ELSE format_conversation_for_llm(memory, req.user_id, HistoryLimit)
                system_prompt == [template |-> create_system_prompt(detect_intent(req.message)),
                                  context |-> context]
            IN  /\ chatMemory' = memory
                /\ req' = [req EXCEPT !.messages =
                              <<ChatMsg("system", system_prompt, <<>>, 0, ""),
                                ChatMsg("user", req.message, <<>>, 0, "")>>]
                /\ pc' = "w_llm1"
    /\ UNCHANGED <<sideVars, storeVars, conversations, provider, dbUp, llmUp, users, tokenStore, messages, convMessages, attendance,
                   llmLog, toolLog, providerLog, outcome>>

\* What create_completion may answer: a text, or (when tools are offered)
\* tool calls with no text.
Responses(tools) ==
    {[content |-> c, tool_calls |-> <<>>] : c \in ReplyTexts}
        \cup IF tools = <<>> THEN {}
             ELSE {[content |-> None, tool_calls |-> t] : t \in ToolCallLists \ {<<>>}}

\* Fault: the reply falls back to the default instead of the response's text.
NoToolReply_Default(assistant_message) == ""

\* Line 252: assistant_message.get('content', '')
NoToolReply(assistant_message) == assistant_message.content

\* Fault: the tools are offered only when the intent is not "general".
FirstCallTools_ByIntent ==
    IF provider = "openai" /\ detect_intent(req.message) # "general"
    THEN get_all_tools ELSE <<>>

\* Lines 190-207: the first create_completion call.
FirstCallTools == IF provider = "openai" THEN get_all_tools ELSE <<>>

W_FirstCall ==
    /\ pc = "w_llm1"
    /\ llmLog' = Append(llmLog, [messages |-> req.messages, tools |-> FirstCallTools,
                                 tool_choice |-> IF FirstCallTools # <<>> THEN "auto"
                                                 ELSE None])
    /\ IF ~llmUp
       THEN /\ pc' = "w_except"
            /\ req' = [req EXCEPT !.exc = "UpstreamModelError"]
       ELSE \E response \in Responses(FirstCallTools) :
              LET content == response.content
                  tool_calls == response.tool_calls
              IN
                /\ req' = [req EXCEPT
                              !.assistant_message =
                                  ChatMsg("assistant", content, tool_calls, 0, ""),
                              !.assistant_reply =
                                  NoToolReply(ChatMsg("assistant", content, tool_calls, 0, ""))]
                /\ pc' = IF tool_calls # <<>> /\ provider = "openai"
                         THEN "w_tool" ELSE "w_reply"
    /\ UNCHANGED <<sideVars, storeVars, conversations, provider, dbUp, llmUp, users, tokenStore, messages, convMessages, chatMemory,
                   attendance, toolLog, providerLog, outcome>>

\* json.dumps(tool_result)
JsonDumps(value) == [json |-> value]

\* Lines 209-236: the body of `for tool_call in assistant_message['tool_calls']`
\* up to the second create_completion call.  The body ends in `return`, so it
\* runs for the first tool call only.
W_Tool ==
    /\ pc = "w_tool"
    /\ LET tool_call == req.assistant_message.tool_calls[1]
           tool_name == tool_call.name
           tool_args == JsonLoads(tool_call.arguments)
       IN  IF tool_args.raised
           THEN /\ pc' = "w_except"
                /\ req' = [req EXCEPT !.exc = tool_args.exc]
                /\ UNCHANGED <<attendance, toolLog, providerLog>>
           ELSE \E answer \in ExternalAnswers :
                  LET r == execute_tool(tool_name, tool_args.value, req.google_access_token,
                                        req.user_id, attendance, dbUp, answer)
                      tool_message == ChatMsg("tool", JsonDumps(r.envelope), <<>>,
                                              tool_call.id, tool_name)
                  IN  /\ attendance' = r.attendance
                      /\ providerLog' = providerLog \o r.called
                      /\ toolLog' = Append(toolLog, [tool_call_id |-> tool_call.id,
                                                     tool_name |-> tool_name,
                                                     tool_args |-> tool_args.value,
                                                     tool_result |-> r.envelope])
                      /\ req' = [req EXCEPT !.final_messages =
                                    req.messages \o <<req.assistant_message, tool_message>>]
                      /\ pc' = "w_llm2"
    /\ UNCHANGED <<sideVars, storeVars, conversations, provider, dbUp, llmUp, users, tokenStore, messages, convMessages, chatMemory,
                   llmLog, outcome>>

\* Fault: the second call offers the tools again.
SecondCallTools_All == get_all_tools

\* Lines 237-241: the second call passes neither tools nor tool_choice.
SecondCallTools == <<>>

\* Lines 237-243: the second create_completion call.
W_SecondCall ==
    /\ pc = "w_llm2"
    /\ llmLog' = Append(llmLog, [messages |-> req.final_messages, tools |-> SecondCallTools,
                                 tool_choice |-> None])
    /\ IF ~llmUp
       THEN /\ pc' = "w_except"
            /\ req' = [req EXCEPT !.exc = "UpstreamModelError"]
       ELSE \E response \in Responses(SecondCallTools) :
                /\ req' = [req EXCEPT !.assistant_reply = response.content]
                /\ pc' = "w_reply"
    /\ UNCHANGED <<sideVars, storeVars, conversations, provider, dbUp, llmUp, users, tokenStore, messages, convMessages, chatMemory,
                   attendance, toolLog, providerLog, outcome>>

\* Lines 245-249 and 251-258: store the reply, return it.
W_Reply ==
    /\ pc = "w_reply"
    /\ IF ~Falsy(req.user_id) /\ ~dbUp
       THEN /\ pc' = "w_except"
            /\ req' = [req EXCEPT !.exc = "PersistenceError"]
            /\ UNCHANGED <<chatMemory, messages, convMessages, outcome>>
       ELSE LET after == Deliver(Reply(req.assistant_reply))
            IN  /\ chatMemory' = IF Falsy(req.user_id) THEN chatMemory
                                 ELSE MemoryAdd(chatMemory, req.user_id, "ai",
                                                req.assistant_reply)
                /\ messages' = after.messages
                /\ convMessages' = after.convMessages
                /\ outcome' = after.outcome
                /\ pc' = "done"
                /\ UNCHANGED req
    /\ UNCHANGED <<sideVars, storeVars, conversations, provider, dbUp, llmUp, users, tokenStore, attendance, llmLog, toolLog,
                   providerLog>>

\* Lines 260-267: the except clause.  Its add_message is not guarded.
W_Except ==
    /\ pc = "w_except"
    /\ LET error_message == ErrorMessage(req.exc)
           after == IF ~Falsy(req.user_id) /\ ~dbUp
                    THEN Deliver(Raised("PersistenceError"))
                    ELSE Deliver(Reply(error_message))
       IN  /\ chatMemory' = IF Falsy(req.user_id) \/ ~dbUp THEN chatMemory
                            ELSE MemoryAdd(chatMemory, req.user_id, "ai", error_message)
           /\ messages' = after.messages
           /\ convMessages' = after.convMessages
           /\ outcome' = after.outcome
    /\ pc' = "done"
    /\ UNCHANGED <<sideVars, storeVars, conversations, provider, dbUp, llmUp, users, tokenStore, attendance, req, llmLog, toolLog,
                   providerLog>>

(***************************************************************************)
(* chat_endpoint (POST /chat).                                             *)
(***************************************************************************)
\* The keyword arguments of the call at chat_supabase.py lines 70-75.
ChatEndpointKwargs == {"message", "google_access_token", "user_id", "conversation_id"}

\* Python raises TypeError on a keyword the callee does not declare.
CallAccepted(params, kwargs) == kwargs \subseteq params

\* Lines 30-75: everything up to the first await.
chat_endpoint ==
    /\ pc = "idle"
    /\ \E message \in RequestMessages, google_id \in GoogleIds \cup {""},
          conversation_id \in ConversationIds \cup OthersConversations \cup {None} :
         LET r0 == [NoRequest EXCEPT !.entry = "chat_endpoint", !.message = message,
                                     !.google_id = google_id,
                                     !.conversation_id = conversation_id,
                                     !.pre = Snapshot]
             fail(status, detail) ==
                 /\ outcome' = HttpError(status, detail)
                 /\ pc' = "done"
         IN  CASE Falsy(google_id) ->
                    /\ fail(400, "Google ID not found")
                    /\ req' = r0
                    /\ UNCHANGED <<messages, convMessages>>
               [] ~Falsy(google_id) /\ ~dbUp ->
                    \* get_user_by_google_id raises
                    /\ fail(500, ChatEndpointExcept)
                    /\ req' = r0
                    /\ UNCHANGED <<messages, convMessages>>
               [] ~Falsy(google_id) /\ dbUp /\ google_id \notin DOMAIN users ->
                    \* create_user returns the id, an int; ["id"] on it raises TypeError
                    /\ fail(500, ChatEndpointExcept)
                    /\ req' = r0
                    /\ UNCHANGED <<messages, convMessages>>
               [] OTHER ->
                    LET user_id == users[google_id]
                        google_token == tokenStore[google_id]
                        r1 == [r0 EXCEPT !.db_user_id = user_id,
                                         !.user_id = ToString(user_id),
                                         !.google_access_token = google_token]
                    IN  \/ \* the INSERT of the user turn raises
                           /\ req' = [r1 EXCEPT !.exc = "PersistenceError"]
                           /\ fail(500, ChatEndpointExcept)
                           /\ UNCHANGED <<messages, convMessages>>
                        \/ /\ req' = r1
                           /\ IF ~Falsy(conversation_id)
                              THEN /\ convMessages' = add_message_to_conversation(
                                           convMessages, conversation_id, "user", message)
                                   /\ UNCHANGED messages
                              ELSE /\ messages' = add_message(messages, user_id, "user",
                                                              message)
                                   /\ UNCHANGED convMessages
                           /\ IF CallAccepted(WrapperParams, ChatEndpointKwargs)
                              THEN /\ pc' = "w_start"
                                   /\ UNCHANGED outcome
                              ELSE fail(500, ChatEndpointExcept)
    /\ UNCHANGED <<sideVars, storeVars, conversations, provider, dbUp, llmUp, users, tokenStore, chatMemory, attendance, llmLog,
                   toolLog, providerLog>>

(***************************************************************************)
(* The environment: the database or the model provider goes down  *)
(* or comes back.                                                          *)
(***************************************************************************)
DbFlip ==
    /\ pc # "done"
    /\ dbUp' = ~dbUp
    /\ UNCHANGED <<sideVars, storeVars, conversations, provider, llmUp, users, tokenStore, messages, convMessages, chatMemory,
                   attendance, pc, req, llmLog, toolLog, providerLog, outcome>>

LlmFlip ==
    /\ pc # "done"
    /\ llmUp' = ~llmUp
    /\ UNCHANGED <<sideVars, storeVars, conversations, provider, dbUp, users, tokenStore, messages, convMessages, chatMemory,
                   attendance, pc, req, llmLog, toolLog, providerLog, outcome>>

(***************************************************************************)
(* delete_conversation_endpoint (DELETE /conversations/{conversation_id}). *)
(***************************************************************************)
\* The names bound in module conversations.py: its imports (lines 6-10) and
\* its own definitions.
ConversationsModuleNames ==
    {"APIRouter", "HTTPException", "Depends", "Path", "List", "Dict", "Any", "BaseModel",
     "verify_supabase_token", "get_supabase_service_client", "router",
     "ConversationCreate", "ConversationResponse", "MessageCreate",
     "create_new_conversation", "list_conversations", "delete_conversation_endpoint",
     "update_conversation", "get_conversation_messages", "add_message_endpoint",
     "conversations_health_check"}

\* db_delete_conversation(conversation_id, google_id): the ownership check
\* and the delete, which cascades to the conversation's turns.
db_delete_conversation(convs, turns, userTable, conversation_id, google_id) ==
    CASE conversation_id \notin DOMAIN convs ->
            [exc |-> "ValueError: Conversation not found", conversations |-> convs,
             convMessages |-> turns]
      [] conversation_id \in DOMAIN convs
            /\ (google_id \notin DOMAIN userTable
                    \/ userTable[google_id] # convs[conversation_id]) ->
            [exc |-> "ValueError: Access denied", conversations |-> convs,
             convMessages |-> turns]
      [] OTHER ->
            [exc |-> "",
             conversations |-> [c \in DOMAIN convs \ {conversation_id} |-> convs[c]],
             convMessages |-> [c \in DOMAIN turns \ {conversation_id} |-> turns[c]]]

\* Lines 167-177: the except clauses.
DeleteConversationExcept(exc) ==
    CASE exc = "ValueError: Conversation not found" -> HttpError(404, "Conversation not found")
      [] exc = "ValueError: Access denied" -> HttpError(403, "Access denied")
      [] OTHER -> HttpError(500, "Failed to delete conversation")

\* Lines 158-166: the body of the try.  A name the module does not bind
\* raises NameError when the call is evaluated.
delete_conversation_endpoint ==
    /\ pc = "idle"
    /\ \E conversation_id \in DOMAIN conversations \cup {UnknownConversation},
          google_id \in GoogleIds \cup {""} :
         LET deleted == db_delete_conversation(conversations, convMessages, users,
                                               conversation_id, google_id)
             result ==
                 CASE Falsy(google_id) ->
                        [exc |-> "HTTPException", conversations |-> conversations,
                         convMessages |-> convMessages,
                         outcome |-> HttpError(400, "Google ID not found")]
                   [] ~Falsy(google_id)
                        /\ "db_delete_conversation" \notin ConversationsModuleNames ->
                        [exc |-> "NameError", conversations |-> conversations,
                         convMessages |-> convMessages,
                         outcome |-> DeleteConversationExcept("NameError")]
                   [] ~Falsy(google_id)
                        /\ "db_delete_conversation" \in ConversationsModuleNames
                        /\ ~dbUp ->
                        [exc |-> "PersistenceError", conversations |-> conversations,
                         convMessages |-> convMessages,
                         outcome |-> DeleteConversationExcept("PersistenceError")]
                   [] OTHER ->
                        [exc |-> deleted.exc, conversations |-> deleted.conversations,
                         convMessages |-> deleted.convMessages,
                         outcome |-> IF deleted.exc = ""
                                     THEN Reply("Conversation deleted successfully")
                                     ELSE DeleteConversationExcept(deleted.exc)]
         IN  /\ req' = [NoRequest EXCEPT !.entry = "delete_conversation",
                                         !.conversation_id = conversation_id,
                                         !.google_id = google_id,
                                         !.exc = result.exc,
                                         !.pre = Snapshot]
             /\ conversations' = result.conversations
             /\ convMessages' = result.convMessages
             /\ outcome' = result.outcome
    /\ pc' = "done"
    /\ UNCHANGED <<sideVars, storeVars, provider, dbUp, llmUp, users, tokenStore, messages, chatMemory,
                   attendance, llmLog, toolLog, providerLog>>

Next ==
    \/ Respond
    \/ W_Start
    \/ W_FirstCall
    \/ W_Tool
    \/ W_SecondCall
    \/ W_Reply
    \/ W_Except
    \/ chat_endpoint
    \/ delete_conversation_endpoint
    \/ DbFlip
    \/ LlmFlip

Spec == Init /\ [][Next]_vars

(***************************************************************************)
(* The conversation store under concurrent tasks (db_client.py).  Each     *)
(* task appends MaxAppends turns to its stream, one after the other; an    *)
(* append is execute_query(INSERT, fetch=False): connect, execute, commit. *)
(* Opening a connection takes time: the clock has advanced when the        *)
(* statement runs.  created_at is the clock's value when the INSERT runs.  *)
(***************************************************************************)
engineVars == <<provider, dbUp, llmUp, users, tokenStore, messages, convMessages, chatMemory,
                attendance, pc, req, llmLog, toolLog, providerLog, outcome, conversations>>

\* Fault: add_message leaves fetch at its default.
AddMessageFetch_Default == TRUE

\* The `fetch` argument add_message passes to execute_query.
AddMessageFetch == FALSE

\* execute_query, lines 36-39: with fetch the function returns before
\* conn.commit(), and closing the connection discards the row.
execute_query(table, row, fetch) == IF fetch THEN table ELSE table \cup {row}

\* ORDER BY created_at: every order of the rows that is ascending in
\* created_at; rows with equal created_at come in any order.
RECURSIVE OrderByCreatedAt(_)
OrderByCreatedAt(table) ==
    IF table = {} THEN {<<>>}
    ELSE LET first == {r \in table : \A q \in table : r.created_at <= q.created_at}
         IN  UNION {{<<r>> \o rest : rest \in OrderByCreatedAt(table \ {r})} : r \in first}

\* get_messages(user_id) / get_conversation_messages(conversation_id)
get_messages(table, stream) == OrderByCreatedAt({r \in table : r.stream = stream})

StoreInit ==
    /\ provider = "openai"
    /\ EngineAtRest
    /\ SideAtRest
    /\ rows = {}
    /\ clock = 0
    /\ \E st \in Streams :
         appenders = [p \in Tasks |->
                        [NoTask EXCEPT !.done = 0,
                                       !.stream = IF p = 1 THEN st ELSE "user:1"]]
    /\ appended = {}
    /\ listing = NoListing

\* psycopg2.connect(database_url)
S_Connect(p) ==
    /\ ~listing.taken
    /\ appenders[p].pc = "idle"
    /\ appenders[p].done < MaxAppends
    /\ clock' = clock + 1
    /\ appenders' = [appenders EXCEPT ![p].pc = "connected", ![p].called_at = clock + 1]
    /\ UNCHANGED <<sideVars, engineVars, rows, appended, listing>>

\* cursor.execute(INSERT INTO messages ...)
S_Execute(p) ==
    /\ ~listing.taken
    /\ appenders[p].pc = "connected"
    /\ appenders' = [appenders EXCEPT
                        ![p].pc = "executed",
                        ![p].row = [stream |-> appenders[p].stream, role |-> "user",
                                    content |-> TurnContent(p, appenders[p].done + 1),
                                    created_at |-> clock]]
    /\ UNCHANGED <<sideVars, engineVars, rows, clock, appended, listing>>

\* conn.commit() or the early return, then the connection is closed and
\* add_message returns.
S_Return(p) ==
    /\ ~listing.taken
    /\ appenders[p].pc = "executed"
    /\ rows' = execute_query(rows, appenders[p].row, AddMessageFetch)
    /\ appended' = appended \cup {[stream |-> appenders[p].stream,
                                    content |-> appenders[p].row.content,
                                    called_at |-> appenders[p].called_at,
                                    returned_at |-> clock]}
    /\ appenders' = [appenders EXCEPT ![p].pc = "idle", ![p].done = @ + 1,
                                      ![p].row = NoRow]
    /\ UNCHANGED <<sideVars, engineVars, clock, listing>>

\* A listing of one stream, taken while no append is in progress.
S_List ==
    /\ ~listing.taken
    /\ \A p \in Tasks : appenders[p].pc = "idle"
    /\ \E stream \in Streams :
         \E result \in get_messages(rows, stream) :
            listing' = [taken |-> TRUE, stream |-> stream, result |-> result]
    /\ UNCHANGED <<sideVars, engineVars, rows, clock, appenders, appended>>

StoreNext ==
    \/ \E p \in Tasks : S_Connect(p)
    \/ \E p \in Tasks : S_Execute(p)
    \/ \E p \in Tasks : S_Return(p)
    \/ S_List

StoreSpec == StoreInit /\ [][StoreNext]_vars

(***************************************************************************)
(* detect_intent on its own (enhanced_llm_wrapper_supabase.py).  A message *)
(* is up to MaxWords words joined by single spaces; the function is        *)
(* called on it twice.                                                     *)
(***************************************************************************)
Words == {"hello", "Explain", "salary", "ABSENT", "inbox", "network", "What", "is"}

RECURSIVE Join(_)
Join(words) ==
    IF words = <<>> THEN ""
    ELSE IF Len(words) = 1 THEN words[1]
    ELSE words[1] \o " " \o Join(Tail(words))

Messages == {Join(words) : words \in UNION {[1..n -> Words] : n \in 0..MaxWords}}

IntentInit ==
    /\ provider = "openai"
    /\ EngineAtRest
    /\ StoreAtRest
    /\ SignupsAtRest /\ OAuthAtRest /\ SplitterAtRest
    /\ \E message \in Messages :
         intentRun = [pc |-> "drawn", message |-> message, intent |-> None, again |-> None]

\* intent = detect_intent(message)
I_Detect ==
    /\ intentRun.pc = "drawn"
    /\ intentRun' = [intentRun EXCEPT !.pc = "detected",
                                       !.intent = detect_intent(intentRun.message)]
    /\ UNCHANGED <<engineVars, storeVars, signups, oauth, splitter>>

\* The same call once more.
I_DetectAgain ==
    /\ intentRun.pc = "detected"
    /\ intentRun' = [intentRun EXCEPT !.pc = "done",
                                       !.again = detect_intent(intentRun.message)]
    /\ UNCHANGED <<engineVars, storeVars, signups, oauth, splitter>>

IntentNext ==
    \/ I_Detect
    \/ I_DetectAgain

IntentSpec == IntentInit /\ [][IntentNext]_vars

(***************************************************************************)
(* The user record of a new google_id under two requests at the same time  *)
(* (chat_supabase.py lines 41-49, auth/google.py lines 78-93,              *)
(* db_client.py lines 31-51).  Each request selects the user, and creates  *)
(* it when the select found none; every statement runs on a connection of  *)
(* its own.                                                                *)
(***************************************************************************)
NewGoogleId == "g2"
SignupEntries == {"chat_endpoint", "sync_user_with_database"}

NoUser == [id |-> 0, google_id |-> ""]
NoSignup == [pc |-> "start", entry |-> "", db_user |-> NoUser, created |-> NoUser,
             user_id |-> 0, status |-> 0]

\* create_user leaves `fetch` at its default: execute_query returns the
\* RETURNING row before conn.commit().
CreateUserFetch == TRUE

\* get_user_by_google_id: result[0] if result else None
get_user_by_google_id(table, google_id) ==
    LET result == {r \in table : r.google_id = google_id}
    IN  IF result = {} THEN NoUser ELSE CHOOSE r \in result : TRUE

\* create_user returns result[0]['id'], an int.
CreateUserReturn == "int"

SignupInit ==
    /\ provider = "openai"
    /\ EngineAtRest
    /\ StoreAtRest
    /\ IntentAtRest /\ OAuthAtRest /\ SplitterAtRest
    /\ \E entries \in [Tasks -> SignupEntries] :
         signups = [tasks |-> [p \in Tasks |-> [NoSignup EXCEPT !.entry = entries[p]]],
                    users |-> {[id |-> 1, google_id |-> "g1"]},
                    users_id_seq |-> 1]

\* db_user = get_user_by_google_id(google_id); an existing user's id is used.
U_Select(p) ==
    /\ signups.tasks[p].pc = "start"
    /\ LET db_user == get_user_by_google_id(signups.users, NewGoogleId)
       IN  signups' = [signups EXCEPT
                          !.tasks[p].db_user = db_user,
                          !.tasks[p].pc = IF db_user = NoUser THEN "selected" ELSE "done",
                          !.tasks[p].user_id = db_user.id,
                          !.tasks[p].status = IF db_user = NoUser THEN 0 ELSE 200]
    /\ UNCHANGED <<engineVars, storeVars, intentRun, oauth, splitter>>

\* create_user: cursor.execute(INSERT ... RETURNING id) on a new connection.
\* The sequence advances whether or not the transaction commits.
U_Insert(p) ==
    /\ signups.tasks[p].pc = "selected"
    /\ signups' = [signups EXCEPT
                      !.users_id_seq = @ + 1,
                      !.tasks[p].created = [id |-> signups.users_id_seq + 1,
                                            google_id |-> NewGoogleId],
                      !.tasks[p].pc = "inserted"]
    /\ UNCHANGED <<engineVars, storeVars, intentRun, oauth, splitter>>

\* execute_query returns the fetched row or commits, and the connection is
\* closed: what was not committed is gone.
U_Return(p) ==
    /\ signups.tasks[p].pc = "inserted"
    /\ signups' = [signups EXCEPT
                      !.users = execute_query(signups.users, signups.tasks[p].created,
                                              CreateUserFetch),
                      !.tasks[p].pc = "created"]
    /\ UNCHANGED <<engineVars, storeVars, intentRun, oauth, splitter>>

\* create_user(...)["id"] in chat_endpoint, db_user["id"] in
\* sync_user_with_database: a TypeError on an int, answered with HTTP 500.
U_Subscript(p) ==
    /\ signups.tasks[p].pc = "created"
    /\ LET subscriptable == CreateUserReturn = "dict"
       IN  signups' = [signups EXCEPT
                          !.tasks[p].pc = "done",
                          !.tasks[p].user_id = IF subscriptable
                                               THEN signups.tasks[p].created.id ELSE 0,
                          !.tasks[p].status = IF subscriptable THEN 200 ELSE 500]
    /\ UNCHANGED <<engineVars, storeVars, intentRun, oauth, splitter>>

SignupNext ==
    \/ \E p \in Tasks : U_Select(p)
    \/ \E p \in Tasks : U_Insert(p)
    \/ \E p \in Tasks : U_Return(p)
    \/ \E p \in Tasks : U_Subscript(p)

SignupSpec == SignupInit /\ [][SignupNext]_vars

(***************************************************************************)
(* The OAuth endpoints (auth/google.py): get_google_auth_url stores a      *)
(* fresh state in _oauth_states, google_oauth_callback looks the state up, *)
(* exchanges the code and writes token_store.  Each handler runs to its    *)
(* end without awaiting anything, so a call is one step.                   *)
(***************************************************************************)
\* The names bound in module auth/google.py at its top level: its imports
\* (lines 1-5) and its own definitions.
GoogleModuleNames ==
    {"Dict", "Any", "Optional", "jwt", "APIRouter", "HTTPException", "Header", "Depends",
     "settings", "get_user_by_google_id", "create_user", "router", "verify_supabase_token",
     "get_current_user", "sync_user_with_database", "get_google_auth_url",
     "google_oauth_callback", "store_google_tokens", "get_google_tokens",
     "auth_health_check"}

\* secrets.token_urlsafe(32): the values it may return, and a value it never did.
StateValues == {"s1", "s2"}
ForgedState == "s0"
Codes == {"code"}

\* Fault: every state is taken for a known one.
StateKnown_Always(states, state) == TRUE

\* Line 148: `state not in _oauth_states`, negated.
StateKnown(states, state) == \E e \in states : e.state = state

\* _oauth_states[state]["google_id"]
StateOwner(states, state) == (CHOOSE e \in states : e.state = state).google_id

NoOAuthCall == [endpoint |-> "", state |-> "", status |-> 0, tokens_before |-> <<>>,
                consumed_before |-> {}]

\* oauth.states is _oauth_states; requested, consumed, writes and last record
\* what happened: which google_id asked for each state, the states deleted
\* after a write, the token_store writes made, and the last call's answer
\* with token_store and the deleted states as the call found them.
OAuthInit ==
    /\ provider = "openai"
    /\ EngineAtRest
    /\ StoreAtRest
    /\ IntentAtRest /\ SignupsAtRest /\ SplitterAtRest
    /\ oauth = [pc |-> "serving", states |-> {}, requested |-> {}, consumed |-> {},
                writes |-> <<>>, calls |-> 0, last |-> NoOAuthCall]

\* GET /google-auth-url by an authenticated user.
get_google_auth_url ==
    /\ oauth.pc = "serving"
    /\ oauth.calls < MaxOAuthCalls
    /\ \E google_id \in GoogleIds, state \in StateValues :
         /\ ~\E e \in oauth.requested : e.state = state
         /\ LET entry == [state |-> state, google_id |-> google_id]
                \* line 113 has run when line 121 evaluates os.getenv
                status == IF "os" \in GoogleModuleNames THEN 200 ELSE 500
            IN  oauth' = [oauth EXCEPT
                             !.states = @ \cup {entry},
                             !.requested = @ \cup {entry},
                             !.calls = @ + 1,
                             !.last = [endpoint |-> "get_google_auth_url", state |-> state,
                                       status |-> status, tokens_before |-> tokenStore,
                                       consumed_before |-> oauth.consumed]]
    /\ UNCHANGED <<engineVars, storeVars, intentRun, signups, splitter>>

\* GET /google-callback?code=...&state=...; Google answers the exchange of
\* the code with tokens or with an error.
google_oauth_callback ==
    /\ oauth.pc = "serving"
    /\ oauth.calls < MaxOAuthCalls
    /\ \E code \in Codes, state \in StateValues \cup {ForgedState},
          exchange \in {"tokens", "error"} :
         LET answer(status) == [endpoint |-> "google_oauth_callback", state |-> state,
                                status |-> status, tokens_before |-> tokenStore,
                                consumed_before |-> oauth.consumed]
             rejected(status) ==
                 /\ oauth' = [oauth EXCEPT !.calls = @ + 1, !.last = answer(status)]
                 /\ UNCHANGED tokenStore
         IN  CASE ~StateKnown(oauth.states, state) -> rejected(400)
               [] StateKnown(oauth.states, state) /\ "os" \notin GoogleModuleNames ->
                    \* line 156: NameError, caught at line 191
                    rejected(500)
               [] StateKnown(oauth.states, state) /\ "os" \in GoogleModuleNames
                    /\ exchange = "error" -> rejected(400)
               [] OTHER ->
                    LET google_id == StateOwner(oauth.states, state)
                    IN  /\ tokenStore' = [g \in DOMAIN tokenStore \cup {google_id} |->
                                              IF g = google_id THEN code ELSE tokenStore[g]]
                        /\ oauth' = [oauth EXCEPT
                                         !.states = {e \in @ : e.state # state},
                                         !.consumed = @ \cup {state},
                                         !.writes = Append(@, [state |-> state,
                                                               google_id |-> google_id]),
                                         !.calls = @ + 1,
                                         !.last = answer(307)]
    /\ UNCHANGED <<storeVars, intentRun, signups, splitter, provider, dbUp, llmUp, users,
                   messages, convMessages, chatMemory, attendance, pc, req, llmLog, toolLog,
                   providerLog, outcome, conversations>>

OAuthNext ==
    \/ get_google_auth_url
    \/ google_oauth_callback

OAuthSpec == OAuthInit /\ [][OAuthNext]_vars

(***************************************************************************)
(* SimpleTextSplitter.split_text (documents.py lines 21-41): the loop      *)
(* condition and the loop body are one step each.                          *)
(***************************************************************************)
Alphabet == "abcdefghijklmnopqrstuvwxyz"
TextOfLen(n) == SubSeq(Alphabet, 1, n)

\* text[start:end] for end in 0..len(text): a negative start counts from the
\* end of the text and is clamped to 0.  The slice covers the 1-based
\* positions from+1 .. to.
Slice(text, start, end) ==
    LET n == Len(text)
        from == IF start >= 0 THEN (IF start > n THEN n ELSE start)
                ELSE (IF start + n < 0 THEN 0 ELSE start + n)
    IN  [from |-> from, to |-> IF end < from THEN from ELSE end,
         text |-> SubSeq(text, from + 1, end)]

\* SimpleTextSplitter(chunk_size, chunk_overlap) with chunk_overlap < chunk_size
Splitters ==
    {[chunk_size |-> cs, chunk_overlap |-> co] :
        cs \in 1..MaxChunkSize, co \in 0..(MaxChunkSize - 1)}

SplitInit ==
    /\ provider = "openai"
    /\ EngineAtRest
    /\ StoreAtRest
    /\ IntentAtRest /\ SignupsAtRest /\ OAuthAtRest
    /\ \E n \in 0..MaxTextLen, self \in {sp \in Splitters : sp.chunk_overlap < sp.chunk_size} :
         splitter = [pc |-> "while", text |-> TextOfLen(n), self |-> self,
                     chunks |-> <<>>, start |-> 0]

\* Line 30: `while start < len(text)` holds.
T_While ==
    /\ splitter.pc = "while"
    /\ splitter.start < Len(splitter.text)
    /\ splitter' = [splitter EXCEPT !.pc = "body"]
    /\ UNCHANGED <<engineVars, storeVars, intentRun, signups, oauth>>

\* Lines 31-39, the body of the loop.  Of the list `chunks` the first
\* MaxChunks entries are kept.
T_Body ==
    /\ splitter.pc = "body"
    /\ LET sum == splitter.start + splitter.self.chunk_size
           end == IF sum > Len(splitter.text) THEN Len(splitter.text) ELSE sum
           start == end - splitter.self.chunk_overlap
       IN  splitter' = [splitter EXCEPT
                           !.chunks = IF Len(@) < MaxChunks
                                      THEN Append(@, Slice(splitter.text, splitter.start, end))
                                      ELSE @,
                           !.start = start,
                           !.pc = IF start >= Len(splitter.text) THEN "returned"
                                  ELSE "while"]
    /\ UNCHANGED <<engineVars, storeVars, intentRun, signups, oauth>>

\* The loop condition is false: return chunks.
T_Return ==
    /\ splitter.pc = "while"
    /\ ~(splitter.start < Len(splitter.text))
    /\ splitter' = [splitter EXCEPT !.pc = "returned"]
    /\ UNCHANGED <<engineVars, storeVars, intentRun, signups, oauth>>

SplitNext ==
    \/ T_While
    \/ T_Body
    \/ T_Return

\* split_text runs: it is never suspended for ever between two steps.
SplitSpec == SplitInit /\ [][SplitNext]_vars /\ WF_vars(SplitNext)

(***************************************************************************)
(* Properties.                                                             *)
(***************************************************************************)
Done == pc = "done"

\* The first model response arrived, and the tool calls it carries.
FirstResponded == req.assistant_message.role = "assistant"
FirstToolCalls == req.assistant_message.tool_calls
Requested(name) == \E i \in DOMAIN FirstToolCalls : FirstToolCalls[i].name = name

\* The stream a chat_endpoint request addresses, now and before the request.
UserResolved == req.entry = "chat_endpoint" /\ req.db_user_id \in DOMAIN messages
AddressedStream ==
    IF ~Falsy(req.conversation_id) THEN convMessages[req.conversation_id]
    ELSE messages[req.db_user_id]
AddressedBefore ==
    IF ~Falsy(req.conversation_id) THEN req.pre.convMessages[req.conversation_id]
    ELSE req.pre.messages[req.db_user_id]

\* C1: a turn whose first model response carries tool calls makes exactly two
\* create_completion calls, however many tool calls there are.
C1_ExactlyTwoModelCalls ==
    (Done /\ FirstResponded /\ FirstToolCalls # <<>>) => Len(llmLog) = 2

C3_AllToolCallsDispatched ==
    Len(llmLog) = 2 =>
        /\ Len(toolLog) = Len(FirstToolCalls)
        /\ \A i \in DOMAIN toolLog : toolLog[i].tool_call_id = FirstToolCalls[i].id

\* C4: the second model call gets the original messages (system, user), the
\* model's tool-call message, and one tool-result message per tool call of
\* the first response, each carrying the id of the call it answers.
C4_SecondCallMessages ==
    Len(llmLog) = 2 =>
        LET sent == llmLog[2].messages
            n == Len(FirstToolCalls)
        IN  /\ Len(sent) = 3 + n
            /\ SubSeq(sent, 1, 2) = req.messages
            /\ sent[1].role = "system" /\ sent[2].role = "user"
            /\ sent[3] = req.assistant_message
            /\ \A i \in 1..n :
                  /\ sent[3 + i].role = "tool"
                  /\ sent[3 + i].tool_call_id = FirstToolCalls[i].id

\* C5: a chat turn processed by chat_endpoint for an authenticated user adds
\* exactly two turns to the stream the request addresses: the user turn with
\* the request message, then the assistant turn with the reply.
C5_TwoTurnsStored ==
    (Done /\ UserResolved) =>
        /\ outcome.kind = "reply"
        /\ AddressedStream =
              AddressedBefore \o <<Turn("user", req.message), Turn("ai", outcome.text)>>

C7_NoIdentityNoAttendance ==
    Falsy(req.user_id) =>
        /\ \A i \in DOMAIN toolLog :
              toolLog[i].tool_name = "mark_attendance" =>
                  /\ ~toolLog[i].tool_result.success
                  /\ toolLog[i].tool_result.error = "User ID is required for attendance marking"
        /\ Requested("mark_attendance") =>
              /\ attendance = req.pre.attendance
              /\ \A j \in DOMAIN providerLog : providerLog[j].name # "mark_attendance"
              /\ Done => outcome.kind = "reply"

C7_Witness ==
    /\ Done /\ req.entry = "respond" /\ Falsy(req.user_id)
    /\ Len(toolLog) = 1
    /\ toolLog[1].tool_name = "mark_attendance"
    /\ ~toolLog[1].tool_result.success
    /\ attendance = <<>>
    /\ Len(llmLog) = 2
    /\ outcome = Reply("ok, done")

\* C8: when the model requests mark_attendance with course_name CS101, the
\* credential context carries a user identity and the store is working,
\* execute_tool returns an envelope with success = true and exactly one new
\* attendance record exists afterwards.
C8_MarkAttendanceSucceeds ==
    [][(/\ pc = "w_tool" /\ pc' = "w_llm2"
        /\ dbUp
        /\ ~Falsy(req.user_id)
        /\ FirstToolCalls[1].name = "mark_attendance"
        /\ DictGet(FirstToolCalls[1].arguments.obj, "course_name", "") = "CS101")
       => (/\ toolLog'[Len(toolLog')].tool_result.success
           /\ Len(attendance') = Len(attendance) + 1)]_vars

\* C9: a successful mark_attendance(course_name, user_id) adds exactly one
\* attendance record, whose user is the given user_id and whose course is the
\* given course_name, the pair the returned attendance_data names.
C9_RecordMatchesCall ==
    \A j \in DOMAIN providerLog :
        (providerLog[j].name = "mark_attendance" /\ providerLog[j].ret.success) =>
            LET data == providerLog[j].ret.attendance_data
            IN  /\ data.user_id = req.user_id
                /\ data.course = DictGet(toolLog[1].tool_args, "course_name", "")
                /\ attendance = Append(req.pre.attendance,
                                       [user_id |-> data.user_id,
                                        course_name |-> data.course])

C11_NeverRaises ==
    (Done /\ req.entry = "respond") => outcome.kind = "reply"

\* C12: a store failure while appending a turn is never swallowed: whichever
\* append fails, in chat_endpoint or inside get_llm_response_with_supabase,
\* the request ends in an error and not in a normal reply.
C12_StoreFailureNotSwallowed ==
    (Done /\ req.exc = "PersistenceError") => outcome.kind # "reply"

\* C13: get_unread_emails or draft_email without a Google access token, and
\* get_attendance_records without a user identity, get a failure envelope
\* that names the missing prerequisite, and no provider is called.
C13_MissingCredentialRefused ==
    \A i \in DOMAIN toolLog :
        LET name == toolLog[i].tool_name
            result == toolLog[i].tool_result
        IN  (\/ name \in {"get_unread_emails", "draft_email"}
                    /\ Falsy(req.google_access_token)
             \/ name = "get_attendance_records" /\ Falsy(req.user_id))
            => /\ ~result.success
               /\ result.error = IF name = "get_attendance_records"
                                 THEN "User ID is required for attendance records"
                                 ELSE "Google access token is required"
               /\ providerLog = <<>>
               /\ attendance = req.pre.attendance

C13_Witness ==
    /\ Len(toolLog) = 1
    /\ toolLog[1].tool_name = "draft_email"
    /\ Has(toolLog[1].tool_args, "to")
    /\ Falsy(req.google_access_token)
    /\ ~toolLog[1].tool_result.success
    /\ providerLog = <<>>

\* C14: a tool call that omits an argument its schema lists as required gets
\* a failure envelope, and the provider is not called.
C14_MissingRequiredArgument ==
    \A i \in DOMAIN toolLog :
        LET name == toolLog[i].tool_name
            missing == {k \in RequiredArgs(name) \ CredentialArgs :
                            ~Has(toolLog[i].tool_args, k)}
        IN  (name \in Registry /\ missing # {})
            => /\ ~toolLog[i].tool_result.success
               /\ providerLog = <<>>

\* An envelope is well formed: boolean success and, on failure, an error and
\* a human-readable message.
WellFormed(envelope) ==
    /\ envelope.success \in BOOLEAN
    /\ ~envelope.success => {"error", "message"} \subseteq DOMAIN envelope

\* C15: every tool call of the first model response, also one whose arguments
\* do not parse or whose provider raises, gets a well-formed envelope, and the
\* second model call is still made.
C15_EveryToolCallGetsEnvelope ==
    (Done /\ FirstResponded /\ FirstToolCalls # <<>>)
    => /\ \A i \in DOMAIN FirstToolCalls :
            \E j \in DOMAIN toolLog :
                /\ toolLog[j].tool_call_id = FirstToolCalls[i].id
                /\ WellFormed(toolLog[j].tool_result)
       /\ Len(llmLog) = 2

\* C16 as stated: the first model call of every turn carries the six tools
\* of get_all_tools with automatic tool selection, whatever the intent.
C16_Original ==
    Len(llmLog) >= 1
    => /\ llmLog[1].tools = get_all_tools
       /\ Len(llmLog[1].tools) = 6
       /\ llmLog[1].tool_choice = "auto"

\* C16, amended: when the configured provider is openai the first model call
\* carries the six tools of get_all_tools with automatic tool selection,
\* whatever the intent; with another provider it carries no tools and no
\* tool choice; the intent only selects the system prompt.
C16_ToolsByProviderNotIntent ==
    Len(llmLog) >= 1
    => LET call == llmLog[1]
       IN  /\ provider = "openai" => /\ call.tools = get_all_tools
                                     /\ Len(call.tools) = 6
                                     /\ call.tool_choice = "auto"
           /\ provider # "openai" => /\ call.tools = <<>>
                                     /\ call.tool_choice = None
           /\ call.messages[1].content.template =
                  create_system_prompt(RequestIntent[req.message])

C16_Witness ==
    /\ Len(llmLog) >= 1
    /\ provider = "openai"
    /\ RequestIntent[req.message] = "general"
    /\ llmLog[1].messages[1].content.template = "general"
    /\ llmLog[1].tools = get_all_tools

\* C17: the second model call of a turn offers no tools, and its response
\* starts no further tool invocation or model call.
C17_SecondCallNoTools ==
    Len(llmLog) >= 2
    => /\ llmLog[2].tools = <<>>
       /\ llmLog[2].tool_choice = None
       /\ Len(llmLog) = 2
       /\ Len(toolLog) = 1
       /\ pc \in {"w_reply", "w_except", "done"}

C17_Witness ==
    /\ Done
    /\ Len(llmLog) = 2
    /\ llmLog[2].tools = <<>>
    /\ toolLog[1].tool_name = "get_career_insights"
    /\ toolLog[1].tool_result.success
    /\ outcome = Reply("ok, done")

\* A delete request by an authenticated user while the store works.
DeleteRequested ==
    /\ Done
    /\ req.entry = "delete_conversation"
    /\ ~Falsy(req.google_id)
    /\ dbUp

\* C18: deleteConversation by a user who is not the stored owner of the
\* conversation fails with HTTP 403, and the conversation and all its turns
\* are unchanged.
C18_DeleteByNonOwner ==
    (/\ DeleteRequested
     /\ req.conversation_id \in DOMAIN req.pre.conversations
     /\ \/ req.google_id \notin DOMAIN users
        \/ users[req.google_id] # req.pre.conversations[req.conversation_id])
    => /\ outcome.kind = "http_error"
       /\ outcome.status = 403
       /\ conversations = req.pre.conversations
       /\ convMessages = req.pre.convMessages

\* C19: deleteConversation with an unknown conversation id fails with
\* HTTP 404, a different error than the 403 of C18.
C19_DeleteUnknown ==
    (DeleteRequested /\ req.conversation_id \notin DOMAIN req.pre.conversations)
    => /\ outcome.kind = "http_error"
       /\ outcome.status = 404

\* Where the turn of an append stands in a listing (0: nowhere).
Position(result, a) ==
    IF \E i \in DOMAIN result : result[i].content = a.content
    THEN CHOOSE i \in DOMAIN result : result[i].content = a.content
    ELSE 0

\* C20: a listing of a stream holds the turn of every append to the stream
\* that has returned exactly once and nothing else, and a turn whose append
\* returned before another append to the stream was called comes before that
\* one's turn.
C20_OrderedExactlyOnce ==
    listing.taken
    => LET result == listing.result
           returned == {a \in appended : a.stream = listing.stream}
       IN  /\ \A a \in returned :
                Cardinality({i \in DOMAIN result : result[i].content = a.content}) = 1
           /\ Len(result) = Cardinality(returned)
           /\ \A a, b \in returned :
                a.returned_at < b.called_at => Position(result, a) < Position(result, b)

C20_Witness ==
    /\ listing.taken
    /\ \A p \in Tasks : appenders[p].done = MaxAppends /\ appenders[p].stream = listing.stream
    /\ Len(listing.result) = Cardinality(Tasks) * MaxAppends
    /\ \E i, j \in DOMAIN listing.result :
            i # j /\ listing.result[i].created_at = listing.result[j].created_at
    /\ \E a, b \in appended : a.returned_at < b.called_at

\* The categories in the order detect_intent tries them.
CategoryOrder == <<"study", "career", "attendance", "email">>

\* Some keyword of the category is a substring of the lower-cased message.
CategoryMatches(i, message) ==
    \E keyword \in intents[i].keywords : Contains(Lower(message), keyword)

C22_FirstCategoryInOrder ==
    intentRun.pc \in {"detected", "done"} =>
        \A i \in DOMAIN intents :
            CategoryMatches(i, intentRun.message) =>
                \E j \in 1..i :
                    /\ intentRun.intent = CategoryOrder[j]
                    /\ CategoryMatches(j, intentRun.message)

\* The email keyword stands before the study keyword, and study is returned.
C22_Witness ==
    /\ intentRun.pc = "detected"
    /\ intentRun.message = "inbox Explain"
    /\ intentRun.intent = "study"

\* C23: an email capability that fails because the token is expired or
\* invalid returns an envelope with auth_required true, and one that fails
\* for another reason returns an envelope without that flag.
C23_AuthFailureFlagged ==
    \A j \in DOMAIN providerLog :
        LET call == providerLog[j]
            flagged == "auth_required" \in DOMAIN call.ret /\ call.ret.auth_required = TRUE
        IN  (call.name \in {"get_unread_emails", "draft_email"} /\ ~call.ret.success)
                => (flagged <=> call.external = "unauthorized")

\* The turns of every stream of the three stores.
StoredTurns ==
    UNION ({{chatMemory[u][k] : k \in DOMAIN chatMemory[u]} : u \in DOMAIN chatMemory}
           \cup {{messages[u][k] : k \in DOMAIN messages[u]} : u \in DOMAIN messages}
           \cup {{convMessages[c][k] : k \in DOMAIN convMessages[c]} :
                     c \in DOMAIN convMessages})

\* C24: every turn in the store has non-empty content; the assistant turn
\* is never appended with empty or missing text.
C24_NoTurnWithoutContent ==
    \A turn \in StoredTurns : ~Falsy(turn.content)

\* C25: a chat turn that names a conversation appends turns to it only when
\* the authenticated requester owns it; a request naming another user's
\* conversation appends nothing to it.
C25_AppendOnlyByOwner ==
    (pc # "idle" /\ req.entry = "chat_endpoint") =>
        \A c \in DOMAIN convMessages :
            convMessages[c] # req.pre.convMessages[c] =>
                /\ req.google_id \in DOMAIN users
                /\ conversations[c] = users[req.google_id]

\* The tool-call arguments without the identity and token the model wrote.
WithoutCredentials(tool_args) == {a \in tool_args : a[1] \notin CredentialArgs}

\* C26: the user identity and the Google token a provider is called with are
\* those of the request's credential context; a user_id or
\* google_access_token in the tool-call arguments never reaches the provider,
\* and the tool call has the effect of the same call without them.
C26_CredentialsFromContext ==
    /\ \A j \in DOMAIN providerLog :
          LET call == providerLog[j]
          IN  /\ call.passed.user_id \in {None, req.user_id}
              /\ call.passed.google_access_token \in {None, req.google_access_token}
              /\ call.name \in {"mark_attendance", "get_attendance_records"}
                    => call.passed.user_id = req.user_id
              /\ call.name \in {"get_unread_emails", "draft_email"}
                    => call.passed.google_access_token = req.google_access_token
    /\ \A i \in DOMAIN toolLog :
          WithoutCredentials(toolLog[i].tool_args) # toolLog[i].tool_args =>
          \E up \in BOOLEAN, answer \in ExternalAnswers :
              LET same == execute_tool(toolLog[i].tool_name,
                                       WithoutCredentials(toolLog[i].tool_args),
                                       req.google_access_token, req.user_id,
                                       req.pre.attendance, up, answer)
              IN  /\ same.envelope = toolLog[i].tool_result
                  /\ same.attendance = attendance

\* The model wrote its own user_id into a mark_attendance call, and the
\* provider was called with the requester's.
C26_Witness ==
    /\ Len(toolLog) = 1
    /\ toolLog[1].tool_name = "mark_attendance"
    /\ Has(toolLog[1].tool_args, "user_id")
    /\ DictGet(toolLog[1].tool_args, "user_id", None) # req.user_id
    /\ Len(providerLog) = 1
    /\ providerLog[1].passed.user_id = req.user_id
    /\ Len(attendance) = 1

\* C27: whenever execute_tool returns an envelope with success false for a
\* mark_attendance request, that invocation wrote no attendance record.
C27_FailureMeansNoWrite ==
    \A i \in DOMAIN toolLog :
        (toolLog[i].tool_name = "mark_attendance" /\ ~toolLog[i].tool_result.success)
            => attendance = req.pre.attendance

\* The users records of the new google_id.
NewUserRecords == {r \in signups.users : r.google_id = NewGoogleId}

\* C28: when the concurrent requests of one new google_id have finished,
\* there is at most one users record for that google_id, and every request
\* went on with that record's id.
C28_OneRecordForAll ==
    (\A p \in Tasks : signups.tasks[p].pc = "done") =>
        /\ Cardinality(NewUserRecords) <= 1
        /\ \A p \in Tasks :
              /\ signups.tasks[p].status = 200
              /\ \E r \in NewUserRecords : signups.tasks[p].user_id = r.id

ChunksCoverText ==
    \A i \in 1..Len(splitter.text) :
        \E k \in DOMAIN splitter.chunks :
            splitter.chunks[k].from < i /\ i <= splitter.chunks[k].to

\* C30: with chunk_overlap smaller than chunk_size, split_text returns for
\* every text, and the chunks it returns together cover the whole text.
C30_SplitTerminatesAndCovers ==
    /\ <>(splitter.pc = "returned")
    /\ [](splitter.pc = "returned" => ChunksCoverText)

====
